---- MODULE Spec2Model ----
(***************************************************************************)
(* A model of eventtools/models.py: the expansion of one occurrence rule   *)
(* (BaseOccurrence.all_occurrences), the k-way merge of occurrence streams *)
(* (combine_occurrences), and the approximate / exact period filters of    *)
(* the occurrence and event querysets (for_period, filter_invalid,         *)
(* sort_by_next, next_occurrence, clean).                                  *)
(*                                                                         *)
(* Time.  A datetime is a number of ticks since 2021-01-01 00:00, a date a *)
(* number of days since 2021-01-01.  One tick stands for the resolution of *)
(* the stored values; a day has TicksPerDay of them, the first being 0:00  *)
(* and the last being the day's 23:59:59.                                  *)
(***************************************************************************)
EXTENDS Integers, Sequences, FiniteSets, Bags, TLC

VARIABLES
    occ,          \* SpecRule: the occurrence rule under examination
    from_arg,    \* SpecRule, SpecPeriod: the window's lower bound argument
    to_arg,      \* SpecRule, SpecPeriod: the window's upper bound argument
    op,           \* SpecRule, SpecPeriod: the operation that has been applied
    result,       \* SpecRule, SpecPeriod: what it returned
    table,        \* SpecPeriod: the stored occurrence rows, in queryset order
    generators,   \* Spec: the input sequences handed to combine_occurrences
    limit,        \* Spec: its limit argument
    pos,          \* Spec: per input, the number of items pulled from it
    grouped,      \* Spec: the list of {'generator', 'next'} groups
    count,        \* Spec: the local counter of yielded items
    out,          \* Spec: the items the consumer has received, in order
    pc,           \* Spec: where the generator function stands
    clock           \* the reading of datetime.now() an operation took

vars == <<occ, from_arg, to_arg, op, result, table,
          generators, limit, pos, grouped, count, out, pc, clock>>

---------------------------------------------------------------------------
(* Bounds of the model.                                                    *)

TicksPerDay == 24
MaxGens == 3
MaxLen == 2
MaxLimit == 2
MaxRows == 3

---------------------------------------------------------------------------
(* Python values: None, date, datetime, int.                               *)

None == [type |-> "none", v |-> 0]
Date(d) == [type |-> "date", v |-> d]
DateTime(t) == [type |-> "datetime", v |-> t]
PyInt(n) == [type |-> "int", v |-> n]

IsNone(x) == x.type = "none"

\* Python truth value: None and the integer 0 are false, dates are true.
Truthy(x) ==
    CASE x.type = "none" -> FALSE
      [] x.type = "int" -> x.v # 0
      [] OTHER -> TRUE

---------------------------------------------------------------------------
(* The proleptic Gregorian calendar of datetime.date, day 0 = 2021-01-01.  *)

IsLeap(y) == (y % 4 = 0 /\ y % 100 # 0) \/ y % 400 = 0

DaysInMonth(y, m) ==
    CASE m \in {4, 6, 9, 11} -> 30
      [] m = 2 -> IF IsLeap(y) THEN 29 ELSE 28
      [] OTHER -> 31

LeapsBefore(y) == ((y - 1) \div 4) - ((y - 1) \div 100) + ((y - 1) \div 400)

DaysBeforeYear(y) == 365 * (y - 2021) + LeapsBefore(y) - LeapsBefore(2021)

RECURSIVE DaysBeforeMonth(_, _)
DaysBeforeMonth(y, m) ==
    IF m = 1 THEN 0 ELSE DaysBeforeMonth(y, m - 1) + DaysInMonth(y, m - 1)

\* The day number of the calendar date y-m-d.
Ordinal(y, m, d) == DaysBeforeYear(y) + DaysBeforeMonth(y, m) + d - 1

RECURSIVE YearFrom(_, _)
YearFrom(y, n) == IF n < DaysBeforeYear(y + 1) THEN y ELSE YearFrom(y + 1, n)

RECURSIVE MonthFrom(_, _, _)
MonthFrom(y, m, n) ==
    IF n < DaysBeforeMonth(y, m) + DaysInMonth(y, m) THEN m
    ELSE MonthFrom(y, m + 1, n)

\* The calendar date of day number n >= 0, as [y, m, d].
YMD(n) ==
    LET y == YearFrom(2021, n)
        r == n - DaysBeforeYear(y)
        m == MonthFrom(y, 1, r)
    IN  [y |-> y, m |-> m, d |-> r - DaysBeforeMonth(y, m) + 1]

\* datetime(y, m, d, tick of the day)
At(y, m, d, t) == Ordinal(y, m, d) * TicksPerDay + t

\* datetime.date(): the calendar day of a datetime.
DateOf(t) == t \div TicksPerDay

\* datetime.time(): the tick within the day.
TimeOf(t) == t % TicksPerDay

---------------------------------------------------------------------------
(* as_datetime                                                             *)

\* Mutant: a date used as an upper bound is widened to 0:00 like a lower one.
as_datetime_NoEnd(d, end) ==
    IF d.type = "date" THEN DateTime(d.v * TicksPerDay) ELSE d

as_datetime(d, end) ==
    IF d.type = "date"
    THEN LET time_args == IF end THEN TicksPerDay - 1 ELSE 0
         IN  DateTime(d.v * TicksPerDay + time_args)
    ELSE d

---------------------------------------------------------------------------
(* dateutil.rrule.rrule(freq, dtstart=..., count=...) and its between().   *)

YEARLY == 0
MONTHLY == 1
WEEKLY == 2
DAILY == 3

REPEAT_MAX == 200

\* The j-th period of the pattern (j = 0 is dtstart's own), dtstart falling
\* on calendar date c at tick tod of the day: the start the period gives and
\* whether that calendar date exists.  A monthly pattern keeps dtstart's
\* day of the month, a yearly one its month and day; a period whose month
\* lacks that day gives no start.
Candidate(freq, dtstart, c, tod, j) ==
    CASE freq = DAILY ->
           [ok |-> TRUE, v |-> dtstart + j * TicksPerDay]
      [] freq = WEEKLY ->
           [ok |-> TRUE, v |-> dtstart + 7 * j * TicksPerDay]
      [] freq = MONTHLY ->
           LET mi == c.y * 12 + (c.m - 1) + j
               y == mi \div 12
               m == (mi % 12) + 1
           IN  IF c.d <= DaysInMonth(y, m)
               THEN [ok |-> TRUE, v |-> At(y, m, c.d, tod)]
               ELSE [ok |-> FALSE, v |-> 0]
      [] freq = YEARLY ->
           IF c.d <= DaysInMonth(c.y + j, c.m)
           THEN [ok |-> TRUE, v |-> At(c.y + j, c.m, c.d, tod)]
           ELSE [ok |-> FALSE, v |-> 0]

\* The number of periods the rule has to walk to generate cnt starts: every
\* period gives one unless the day of the month is past the 28th; any two
\* consecutive months hold a month of 31 days, any eight consecutive years
\* a leap year.
Periods(freq, c, cnt) ==
    IF freq \in {DAILY, WEEKLY} \/ c.d <= 28 THEN cnt
    ELSE IF freq = MONTHLY THEN 2 * cnt
    ELSE 8 * cnt

Take(s, n) == SubSeq(s, 1, IF n < Len(s) THEN n ELSE Len(s))

rrule(freq, dtstart, cnt) == [freq |-> freq, dtstart |-> dtstart, count |-> cnt]

\* Iterating the rrule: the starts of its periods in order, those of
\* periods without the date skipped, until count starts have been generated.
rrule_list(r) ==
    LET c == YMD(DateOf(r.dtstart))
        tod == TimeOf(r.dtstart)
        cands == [j \in 1..Periods(r.freq, c, r.count) |->
                      Candidate(r.freq, r.dtstart, c, tod, j - 1)]
        given == SelectSeq(cands, LAMBDA x : x.ok)
    IN  Take([k \in 1..Len(given) |-> given[k].v], r.count)

\* The shortest period of each pattern, in days.
MinPeriodDays(freq) ==
    CASE freq = DAILY -> 1 [] freq = WEEKLY -> 7
      [] freq = MONTHLY -> 28 [] freq = YEARLY -> 365

\* The number of periods that start no later than `before`, at most.
PeriodsUntil(freq, dtstart, before) ==
    IF before < dtstart THEN 0
    ELSE ((before - dtstart) \div (MinPeriodDays(freq) * TicksPerDay)) + 1

\* rrule.between(after, before, inc=True): walks the rule in order, breaks
\* at the first start after `before` (so no period past it is generated),
\* and collects the starts that are not before `after`.
between(r, after, before) ==
    LET c == YMD(DateOf(r.dtstart))
        tod == TimeOf(r.dtstart)
        all == Periods(r.freq, c, r.count)
        upto == PeriodsUntil(r.freq, r.dtstart, before)
        cands == [j \in 1..(IF upto < all THEN upto ELSE all) |->
                      Candidate(r.freq, r.dtstart, c, tod, j - 1)]
        given == SelectSeq(cands, LAMBDA x : x.ok)
        gen == Take([k \in 1..Len(given) |-> given[k].v], r.count)
    IN  SelectSeq(gen, LAMBDA i : i >= after /\ i <= before)

\* datetime(1, 1, 1, 0, 0) and datetime(9999, 12, 31, 23, 59)
MinDateTime == At(1, 1, 1, 0)
MaxDateTime == At(9999, 12, 31, TicksPerDay - 1)

---------------------------------------------------------------------------
(* BaseOccurrence: an occurrence rule is a record                          *)
(*   [pk, event, start, end, repeat, repeat_until, occurrence_data]        *)
(* start and end are datetimes, repeat an int or None, repeat_until a date *)
(* or None.                                                                *)

\* first_item(gen): the generator's first item, or None (the empty tuple).
NoItem == <<>>
first_item(gen) == IF Len(gen) > 0 THEN gen[1] ELSE NoItem

\* Mutant: a repeat of 0 (YEARLY) is taken for an absent repeat.
clean_RepeatFalsy(self) ==
    IF Truthy(self.start) /\ Truthy(self.end) /\ self.start.v >= self.end.v
    THEN "End must be after start"
    ELSE IF Truthy(self.repeat_until) /\ ~Truthy(self.repeat)
    THEN "Select a repeat interval, or remove the 'repeat until' date"
    ELSE IF Truthy(self.start) /\ Truthy(self.repeat_until)
            /\ self.repeat_until.v < DateOf(self.start.v)
    THEN "'Repeat until' cannot be before the first occurrence"
    ELSE "ok"

\* clean(): the message of the ValidationError it raises, or "ok".
clean(self) ==
    IF Truthy(self.start) /\ Truthy(self.end) /\ self.start.v >= self.end.v
    THEN "End must be after start"
    ELSE IF Truthy(self.repeat_until) /\ IsNone(self.repeat)
    THEN "Select a repeat interval, or remove the 'repeat until' date"
    ELSE IF Truthy(self.start) /\ Truthy(self.repeat_until)
            /\ self.repeat_until.v < DateOf(self.start.v)
    THEN "'Repeat until' cannot be before the first occurrence"
    ELSE "ok"

\* The effective upper bound of a repeating rule (lines 292-295).
\* Mutant: repeat_until replaces to_date when it is the later of the two.
upper_bound_Later(self, to_date) ==
    IF Truthy(self.repeat_until)
       /\ (~Truthy(to_date) \/ as_datetime(self.repeat_until, TRUE).v > to_date.v)
    THEN as_datetime(self.repeat_until, TRUE)
    ELSE to_date

upper_bound(self, to_date) ==
    IF Truthy(self.repeat_until)
       /\ (~Truthy(to_date) \/ as_datetime(self.repeat_until, TRUE).v < to_date.v)
    THEN as_datetime(self.repeat_until, TRUE)
    ELSE to_date

\* The lower bound handed to between() (lines 300-301).
\* Mutant: the bound is not moved back by the occurrence's length.
lower_bound_NoShift(self, from_date) == from_date

lower_bound(self, from_date) ==
    IF Truthy(from_date)
    THEN DateTime(from_date.v - (self.end.v - self.start.v))
    ELSE from_date

\* The single instance of a rule that does not repeat (lines 284-286).
single_occurrence(self, from_date, to_date) ==
    IF (~Truthy(from_date) \/ self.start.v >= from_date.v)
       /\ (~Truthy(to_date) \/ self.start.v <= to_date.v)
    THEN << <<self.start.v, self.end.v, self.occurrence_data>> >>
    ELSE <<>>

\* BaseOccurrence.all_occurrences: the sequence the generator yields.
all_occurrences(self, from_date0, to_date0) ==
    LET from_date == IF Truthy(from_date0)
                     THEN as_datetime(from_date0, FALSE) ELSE from_date0
        to_date == IF Truthy(to_date0)
                   THEN as_datetime(to_date0, TRUE) ELSE to_date0
    IN  IF IsNone(self.repeat)
        THEN single_occurrence(self, from_date, to_date)
        ELSE LET delta == self.end.v - self.start.v
                 repeater == rrule(self.repeat.v, self.start.v, REPEAT_MAX)
                 to_date2 == upper_bound(self, to_date)
                 starts ==
                     IF Truthy(from_date) \/ Truthy(to_date2)
                     THEN LET from_date2 == lower_bound(self, from_date)
                          IN  between(repeater,
                                      IF Truthy(from_date2) THEN from_date2.v
                                      ELSE MinDateTime,
                                      IF Truthy(to_date2) THEN to_date2.v
                                      ELSE MaxDateTime)
                     ELSE rrule_list(repeater)
             IN  [k \in 1..Len(starts) |->
                     <<starts[k], starts[k] + delta, self.occurrence_data>>]

\* BaseModel.next_occurrence for an occurrence rule; now is datetime.now().
occurrence_next_occurrence(self, from_date, to_date, now) ==
    LET from_date1 == IF ~Truthy(from_date) THEN DateTime(now) ELSE from_date
    IN  first_item(all_occurrences(self, from_date1, to_date))

---------------------------------------------------------------------------
(* SpecRule: one occurrence rule, a window, and the operations on it.      *)

MergeIdle ==
    /\ generators = <<>> /\ limit = None /\ pos = <<>> /\ grouped = <<>>
    /\ count = 0 /\ out = <<>> /\ pc = "idle"

MergeUnchanged == UNCHANGED <<generators, limit, pos, grouped, count, out, pc>>

Jan1 == Ordinal(2021, 1, 1)
Jan22 == Ordinal(2021, 1, 22)

RuleStarts ==
    { At(2021, 1, 1, 9), At(2021, 1, 1, TicksPerDay - 1),
      At(2021, 1, 31, 9), At(2024, 2, 29, 9) }

RuleLengths == {0 - 1, 0, 1, 2}

RuleSpans ==
    { <<DateTime(s), DateTime(s + d)>> : s \in RuleStarts, d \in RuleLengths }
    \cup { <<None, DateTime(At(2021, 1, 1, 9))>>,
           <<DateTime(At(2021, 1, 1, 9)), None>>, <<None, None>> }

Repeats == {None, PyInt(YEARLY), PyInt(MONTHLY), PyInt(WEEKLY), PyInt(DAILY)}

RepeatUntils ==
    { None, Date(Jan1 - 1), Date(Jan1), Date(Jan22), Date(Ordinal(2021, 12, 31)) }

FromDates ==
    { None, Date(Ordinal(2021, 1, 2)), Date(Ordinal(2021, 1, 10)),
      DateTime(At(2021, 1, 1, 9)), DateTime(At(2021, 1, 1, 10)),
      Date(Jan1 + REPEAT_MAX - 1), Date(Jan1 + REPEAT_MAX) }

ToDates ==
    { None, Date(Jan1), Date(Ordinal(2021, 1, 31)),
      DateTime(At(2021, 1, 1, 8)), DateTime(At(2021, 1, 1, 9)) }

Nows == { At(2021, 1, 1, 0), At(2021, 1, 15, 10) }

Rule(span, repeat, repeat_until) ==
    [pk |-> 1, event |-> 1, start |-> span[1], end |-> span[2],
     repeat |-> repeat, repeat_until |-> repeat_until, occurrence_data |-> 1]

InitRule ==
    /\ occ \in { Rule(sp, rp, ru) :
                    sp \in RuleSpans, rp \in Repeats, ru \in RepeatUntils }
    /\ from_arg \in FromDates
    /\ to_arg \in ToDates
    /\ op = "none"
    /\ result = <<>>
    /\ table = <<>>
    /\ clock = 0
    /\ MergeIdle

\* The form or admin validates the rule.
Clean ==
    /\ op = "none"
    /\ op' = "clean"
    /\ result' = clean(occ)
    /\ UNCHANGED <<occ, from_arg, to_arg, table, clock>>
    /\ MergeUnchanged

\* A caller exhausts occ.all_occurrences(from_arg, to_arg).
AllOccurrences ==
    /\ op = "none"
    /\ Truthy(occ.start) /\ Truthy(occ.end)
    /\ op' = "all_occurrences"
    /\ result' = all_occurrences(occ, from_arg, to_arg)
    /\ UNCHANGED <<occ, from_arg, to_arg, table, clock>>
    /\ MergeUnchanged

\* A caller asks for occ.next_occurrence(from_arg); the clock is read when
\* from_arg is not given.
NextOccurrence ==
    /\ op = "none"
    /\ Truthy(occ.start) /\ Truthy(occ.end)
    /\ \E t \in Nows :
          /\ clock' = IF ~Truthy(from_arg) THEN t ELSE clock
          /\ result' = occurrence_next_occurrence(occ, from_arg, None, clock')
    /\ op' = "next_occurrence"
    /\ UNCHANGED <<occ, from_arg, to_arg, table>>
    /\ MergeUnchanged

NextRule == Clean \/ AllOccurrences \/ NextOccurrence

SpecRule == InitRule /\ [][NextRule]_vars

---------------------------------------------------------------------------
(* What the claims about one rule say, stated apart from the code.         *)

\* A bound of the window as a point in time: a date is widened to the
\* first (lower bound) or the last (upper bound) tick of its day.
StartOfDay(x) == IF x.type = "date" THEN x.v * TicksPerDay ELSE x.v
EndOfDay(x) ==
    IF x.type = "date" THEN x.v * TicksPerDay + (TicksPerDay - 1) ELSE x.v

HasSpan(self) == ~IsNone(self.start) /\ ~IsNone(self.end)

\* The three invariants of an occurrence rule.
RuleInvariants(self) ==
    /\ self.start.v < self.end.v
    /\ ~IsNone(self.repeat_until) => ~IsNone(self.repeat)
    /\ ~IsNone(self.repeat_until) => self.repeat_until.v >= DateOf(self.start.v)

ValidRule(self) == HasSpan(self) /\ RuleInvariants(self)

\* The starts of the rule's pattern, the first REPEAT_MAX of them, counted
\* from the rule's own start; a rule that does not repeat has its own only.
PatternStarts(self) ==
    IF IsNone(self.repeat) THEN <<self.start.v>>
    ELSE rrule_list(rrule(self.repeat.v, self.start.v, REPEAT_MAX))

Instances(self, starts) ==
    [k \in 1..Len(starts) |->
        <<starts[k], starts[k] + (self.end.v - self.start.v),
          self.occurrence_data>>]

Ascending(items) ==
    \A k \in 1..(Len(items) - 1) : items[k][1] < items[k + 1][1]

\* The instances C5 describes for a repeating rule and a window.
RepeatingInWindow(self, f, t) ==
    LET d == self.end.v - self.start.v
        keep(s) ==
            /\ IsNone(f) \/ StartOfDay(f) - d <= s
            /\ IsNone(t) \/ s <= EndOfDay(t)
            /\ IsNone(self.repeat_until) \/ s <= EndOfDay(self.repeat_until)
    IN  Instances(self, SelectSeq(PatternStarts(self), keep))

WeeklyExample ==
    [pk |-> 1, event |-> 1,
     start |-> DateTime(At(2021, 1, 1, 9)), end |-> DateTime(At(2021, 1, 1, 10)),
     repeat |-> PyInt(WEEKLY), repeat_until |-> Date(Jan22),
     occurrence_data |-> 1]

IsWeeklyExample ==
    /\ op = "all_occurrences"
    /\ occ = WeeklyExample
    /\ from_arg = Date(Ordinal(2021, 1, 10))
    /\ to_arg = Date(Ordinal(2021, 1, 31))

\* C5: for a valid repeating rule, all_occurrences yields, in ascending
\* order of start, exactly those of the first 200 pattern starts s with
\* start_of_day(from_date) - d <= s (from_date given) and
\* s <= end_of_day(to_date), s <= end_of_day(repeat_until) (each if present),
\* each as (s, s + d, payload); never more than 200; and the weekly example
\* yields exactly the instances of 2021-01-15 and 2021-01-22.
C5_RepeatingExpansion ==
    (op = "all_occurrences" /\ ValidRule(occ) /\ ~IsNone(occ.repeat)) =>
        /\ result = RepeatingInWindow(occ, from_arg, to_arg)
        /\ Len(result) <= REPEAT_MAX
        /\ Ascending(result)
        /\ IsWeeklyExample =>
              result = << <<At(2021, 1, 15, 9), At(2021, 1, 15, 10), 1>>,
                          <<At(2021, 1, 22, 9), At(2021, 1, 22, 10), 1>> >>

\* The weekly example has been expanded and gave its two instances.
C5_Witness == IsWeeklyExample /\ Len(result) = 2

\* C6: for a valid rule that does not repeat, all_occurrences yields the
\* one instance (start, end, payload) iff start >= start_of_day(from_date)
\* when from_date is given and start <= end_of_day(to_date) when to_date is
\* given, and nothing otherwise; a date bound is widened to the first or
\* the last tick of its day, a datetime bound is used unchanged.
C6_SingleExpansion ==
    (op = "all_occurrences" /\ ValidRule(occ) /\ IsNone(occ.repeat)) =>
        LET inside ==
                /\ IsNone(from_arg) \/ occ.start.v >= StartOfDay(from_arg)
                /\ IsNone(to_arg) \/ occ.start.v <= EndOfDay(to_arg)
        IN  result = IF inside
                     THEN << <<occ.start.v, occ.end.v, occ.occurrence_data>> >>
                     ELSE <<>>

\* A rule that does not repeat, starting at 09:00 of the day a date-typed
\* to_date names, has been expanded within date-typed bounds and yielded.
C6_Witness ==
    /\ op = "all_occurrences" /\ ValidRule(occ) /\ IsNone(occ.repeat)
    /\ from_arg.type = "date" /\ to_arg.type = "date"
    /\ DateOf(occ.start.v) = to_arg.v
    /\ result = << <<occ.start.v, occ.end.v, occ.occurrence_data>> >>

\* The moment next_occurrence searches from.
SearchFrom == IF IsNone(from_arg) THEN clock ELSE StartOfDay(from_arg)

\* The rule's generated repetitions: its first 200 pattern starts that are
\* not after the end of the repeat_until day.
Generated(self) ==
    Instances(self, SelectSeq(PatternStarts(self),
        LAMBDA s : IsNone(self.repeat_until)
                   \/ s <= EndOfDay(self.repeat_until)))

\* C4 as stated: next_occurrence returns the earliest generated instance
\* with start >= from_date (the clock's reading when from_date is absent),
\* or none if there is no such instance.
C4_Original ==
    (op = "next_occurrence" /\ ValidRule(occ)) =>
        result = first_item(SelectSeq(Generated(occ),
                                      LAMBDA i : i[1] >= SearchFrom))

\* C4 amended: for a repeating rule the search starts the rule's length
\* d = end - start before from_date: next_occurrence returns the earliest
\* generated instance with start >= from_date - d (start >= from_date for
\* a rule that does not repeat), or none; so it never returns an instance
\* that starts before from_date - d.
C4_NextOccurrence ==
    (op = "next_occurrence" /\ ValidRule(occ)) =>
        LET d == IF IsNone(occ.repeat) THEN 0 ELSE occ.end.v - occ.start.v
        IN  /\ result = first_item(SelectSeq(Generated(occ),
                                   LAMBDA i : i[1] >= SearchFrom - d))
            /\ result # NoItem => result[1] >= SearchFrom - d

\* next_occurrence of a repeating rule returned an instance that started
\* before from_date and was still running then.
C4_Witness ==
    /\ op = "next_occurrence" /\ ValidRule(occ) /\ ~IsNone(occ.repeat)
    /\ result # NoItem
    /\ result[1] < SearchFrom /\ result[2] >= SearchFrom

\* C8: clean reports a failure exactly when start >= end, or repeat_until
\* is set while repeat is absent (a repeat of 0 is present), or
\* repeat_until is before the date of start; a rule with repeat absent and
\* repeat_until set (its span in order) fails with the "repeat interval"
\* message; and clean leaves the rule as it was.
C8_Clean ==
    /\ [] ((op = "clean" /\ HasSpan(occ)) =>
            /\ (result = "ok") <=> RuleInvariants(occ)
            /\ (occ.start.v < occ.end.v /\ IsNone(occ.repeat)
                /\ ~IsNone(occ.repeat_until)) =>
                    result = "Select a repeat interval, or remove the 'repeat until' date")
    /\ [][op' = "clean" => occ' = occ]_vars

\* A yearly rule (repeat = 0) with a repeat_until passed validation.
C8_Witness ==
    /\ op = "clean" /\ result = "ok"
    /\ occ.repeat = PyInt(YEARLY) /\ ~IsNone(occ.repeat_until)

---------------------------------------------------------------------------
(* combine_occurrences(generators, limit), step by step.  An item is a     *)
(* tuple <<start, end, data>>; generators[g] is what input g will yield,   *)
(* pos[g] how many of its items have been pulled with next().  A group is  *)
(* [generator |-> g, next |-> item].                                       *)

\* next(gen): whether input g has another item, and that item.
HasNext(gens, p, g) == p[g] < Len(gens[g])
NextOf(gens, p, g) == gens[g][p[g] + 1]

\* Lines 57-60: the group whose head starts earliest, as an index of the
\* list; the first one found wins a tie.
RECURSIVE ScanGroups(_, _, _)
ScanGroups(grp, k, next_group) ==
    IF k > Len(grp) THEN next_group
    ELSE IF next_group = 0 \/ grp[k].next[1] < grp[next_group].next[1]
    THEN ScanGroups(grp, k + 1, k)
    ELSE ScanGroups(grp, k + 1, next_group)

\* Mutant: a later group with an equal start replaces the earlier one.
RECURSIVE ScanGroupsLE(_, _, _)
ScanGroupsLE(grp, k, next_group) ==
    IF k > Len(grp) THEN next_group
    ELSE IF next_group = 0 \/ grp[k].next[1] <= grp[next_group].next[1]
    THEN ScanGroupsLE(grp, k + 1, k)
    ELSE ScanGroupsLE(grp, k + 1, next_group)

NextGroup_LastWins(grp) == ScanGroupsLE(grp, 1, 0)

NextGroup(grp) == ScanGroups(grp, 1, 0)

\* Line 50: the loop's condition.
\* Mutant: the loop runs while count <= limit.
WithinLimit_OffByOne(lim, cnt) == IsNone(lim) \/ cnt <= lim.v

WithinLimit(lim, cnt) == IsNone(lim) \/ cnt < lim.v

\* list.remove(x): the list without its first element equal to x.
RECURSIVE ListRemove(_, _)
ListRemove(list, x) ==
    IF Len(list) = 0 THEN list
    ELSE IF Head(list) = x THEN Tail(list)
    ELSE <<Head(list)>> \o ListRemove(Tail(list), x)

\* Lines 67-71: the groups after the chosen group k has been advanced.
\* Mutant: an exhausted group is left in the list.
AfterAdvance_KeepExhausted(gens, p, grp, k) ==
    LET g == grp[k].generator
    IN  IF HasNext(gens, p, g)
        THEN [grp EXCEPT ![k].next = NextOf(gens, p, g)]
        ELSE grp

AfterAdvance(gens, p, grp, k) ==
    LET g == grp[k].generator
    IN  IF HasNext(gens, p, g)
        THEN [grp EXCEPT ![k].next = NextOf(gens, p, g)]
        ELSE ListRemove(grp, grp[k])

\* The inputs: at most MaxGens sequences of at most MaxLen items, each
\* non-decreasing by start; the items of input g carry g as their data.
Starts == 0..1

NonDecreasing(items) ==
    \A k \in 1..(Len(items) - 1) : items[k][1] <= items[k + 1][1]

InputSeqs(g) ==
    { q \in UNION { [1..n -> { <<s, s + 1, g>> : s \in Starts }] : n \in 0..MaxLen } :
        NonDecreasing(q) }

InputLists ==
    UNION { { gs \in [1..n -> UNION { InputSeqs(g) : g \in 1..n }] :
                \A g \in 1..n : gs[g] \in InputSeqs(g) } : n \in 0..MaxGens }

Limits == {None} \cup { PyInt(k) : k \in 0..MaxLimit }

RuleIdle ==
    /\ occ = None /\ from_arg = None /\ to_arg = None /\ op = "none"
    /\ result = <<>> /\ table = <<>> /\ clock = 0

RuleUnchanged == UNCHANGED <<occ, from_arg, to_arg, op, result, table, clock>>

Init ==
    /\ generators \in InputLists
    /\ limit \in Limits
    /\ pos = <<>>
    /\ grouped = <<>>
    /\ count = 0
    /\ out = <<>>
    /\ pc = "heads"
    /\ RuleIdle

\* Lines 42-48: one round of the for loop, on the next generator.
PullHead ==
    /\ pc = "heads"
    /\ Len(pos) < Len(generators)
    /\ LET g == Len(pos) + 1
           p == Append(pos, 0)
       IN  IF HasNext(generators, p, g)
           THEN /\ grouped' = Append(grouped,
                        [generator |-> g, next |-> NextOf(generators, p, g)])
                /\ pos' = Append(pos, 1)
           ELSE /\ grouped' = grouped
                /\ pos' = p
    /\ UNCHANGED <<generators, limit, count, out, pc>>
    /\ RuleUnchanged

\* Lines 50-63: the loop is entered, the earliest group chosen and its head
\* yielded; the generator function is suspended at the yield.
Yield ==
    /\ \/ pc = "heads" /\ Len(pos) = Len(generators)
       \/ pc = "loop"
    /\ WithinLimit(limit, count)
    /\ Len(grouped) # 0
    /\ out' = Append(out, grouped[NextGroup(grouped)].next)
    /\ pc' = "yielded"
    /\ UNCHANGED <<generators, limit, pos, grouped, count>>
    /\ RuleUnchanged

\* Lines 64-71: the consumer asks for more; the counter is increased and
\* the chosen group advanced, or removed if its generator is exhausted.
Resume ==
    /\ pc = "yielded"
    /\ count' = count + 1
    /\ LET k == NextGroup(grouped)
           g == grouped[k].generator
       IN  /\ grouped' = AfterAdvance(generators, pos, grouped, k)
           /\ pos' = IF HasNext(generators, pos, g)
                     THEN [pos EXCEPT ![g] = pos[g] + 1] ELSE pos
    /\ pc' = "loop"
    /\ UNCHANGED <<generators, limit, out>>
    /\ RuleUnchanged

\* Lines 50-53: the limit is reached, or no group is left: the generator
\* function returns.
Return ==
    /\ \/ pc = "heads" /\ Len(pos) = Len(generators)
       \/ pc = "loop"
    /\ \/ ~WithinLimit(limit, count)
       \/ WithinLimit(limit, count) /\ Len(grouped) = 0
    /\ pc' = "done"
    /\ UNCHANGED <<generators, limit, pos, grouped, count, out>>
    /\ RuleUnchanged

\* The consumer stops pulling: the suspended generator is never resumed.
Close ==
    /\ pc = "yielded"
    /\ pc' = "closed"
    /\ UNCHANGED <<generators, limit, pos, grouped, count, out>>
    /\ RuleUnchanged

Next == PullHead \/ Yield \/ Resume \/ Return \/ Close

Spec == Init /\ [][Next]_vars

---------------------------------------------------------------------------
(* What the claims about the merge say.                                    *)

Range(f) == { f[x] : x \in DOMAIN f }

BagOf(items) ==
    [x \in Range(items) |-> Cardinality({ i \in DOMAIN items : items[i] = x })]

RECURSIVE Concat(_)
Concat(seqs) == IF Len(seqs) = 0 THEN <<>> ELSE Head(seqs) \o Concat(Tail(seqs))

\* The places <<g, k>> of all items of the inputs, and their order in a
\* merge that is stable by input order: by start, then by input, then by
\* the place within the input.
Places(gens) == { <<g, k>> : g \in DOMAIN gens, k \in 1..MaxLen + 1 } \cap
                { pl \in (DOMAIN gens) \X (1..MaxLen + 1) : pl[2] <= Len(gens[pl[1]]) }

PlaceBefore(gens, a, b) ==
    LET sa == gens[a[1]][a[2]][1]
        sb == gens[b[1]][b[2]][1]
    IN  \/ sa < sb
        \/ sa = sb /\ a[1] < b[1]
        \/ sa = sb /\ a[1] = b[1] /\ a[2] < b[2]

RECURSIVE InOrder(_, _)
InOrder(gens, places) ==
    IF places = {} THEN <<>>
    ELSE LET a == CHOOSE x \in places :
                     \A y \in places \ {x} : PlaceBefore(gens, x, y)
         IN  <<gens[a[1]][a[2]]>> \o InOrder(gens, places \ {a})

\* The unbounded merged sequence of the inputs.
MergedAll(gens) == InOrder(gens, Places(gens))

\* C2: with limit None the merge yields a sequence that is non-decreasing
\* by start and whose multiset of items is the union of the inputs'; with
\* limit k it yields exactly min(k, total) items, the first k of the
\* unbounded merged sequence (none for k = 0); what has been yielded so
\* far is always a prefix of that sequence.
C2_Merge ==
    LET all == MergedAll(generators)
        total == Len(Concat(generators))
    IN  /\ out = Take(all, Len(out))
        /\ NonDecreasing(out)
        /\ (pc = "done" /\ IsNone(limit)) =>
              /\ BagOf(out) = BagOf(Concat(generators))
              /\ Len(out) = total
        /\ (pc = "done" /\ ~IsNone(limit)) =>
              /\ Len(out) = (IF limit.v < total THEN limit.v ELSE total)
              /\ out = Take(all, limit.v)

\* A merge of two or more inputs holding more than limit items has
\* returned after limit > 0 items, taken from more than one input.
C2_Witness ==
    /\ pc = "done" /\ ~IsNone(limit) /\ limit.v > 0
    /\ Len(Concat(generators)) > limit.v
    /\ Len(out) = limit.v
    /\ \E i, j \in DOMAIN out : out[i][3] # out[j][3]

\* The items of the output that came from input g, in output order.
OutOf(g) == SelectSeq(out, LAMBDA x : x[3] = g)

\* C9: the groups stand in input order; the item yielded is the head of
\* the earliest group among the heads with the least start, so of two
\* heads with equal starts the one of the earlier input is yielded first;
\* and the items taken from one input are yielded in that input's order.
C9_Stable ==
    /\ \A j, k \in DOMAIN grouped :
          j < k => grouped[j].generator < grouped[k].generator
    /\ pc = "yielded" =>
          \E k \in DOMAIN grouped :
              /\ out[Len(out)] = grouped[k].next
              /\ \A j \in DOMAIN grouped :
                    /\ grouped[j].next[1] >= grouped[k].next[1]
                    /\ j < k => grouped[j].next[1] > grouped[k].next[1]
    /\ \A g \in DOMAIN generators :
          OutOf(g) = Take(generators[g], Len(OutOf(g)))

\* An input has been exhausted and removed, two of the remaining heads
\* have equal starts, and the head of the earlier input has been yielded.
C9_Witness ==
    /\ pc = "yielded"
    /\ \E g \in DOMAIN pos :
          /\ pos[g] >= 1 /\ pos[g] = Len(generators[g])
          /\ \A k \in DOMAIN grouped : grouped[k].generator # g
    /\ \E j, k \in DOMAIN grouped :
          /\ j < k
          /\ grouped[j].next[1] = grouped[k].next[1]
          /\ out[Len(out)] = grouped[j].next

Pulled(g) == IF g <= Len(pos) THEN pos[g] ELSE 0

RECURSIVE SumPulled(_)
SumPulled(g) == IF g = 0 THEN 0 ELSE Pulled(g) + SumPulled(g - 1)

\* C10: every input has at most one group, whose head is the item pulled
\* from it last; the items pulled from an input are those yielded from it,
\* followed by its buffered head unless that head is the item just yielded
\* (the function stands at its yield, or was left there by the consumer);
\* so the items pulled never number more than those yielded plus the number
\* of inputs.
C10_LookAhead ==
    /\ \A g \in DOMAIN generators :
          LET groups == { k \in DOMAIN grouped : grouped[k].generator = g }
              pulled == SubSeq(generators[g], 1, Pulled(g))
          IN  /\ Cardinality(groups) <= 1
              /\ \A k \in groups :
                    /\ Pulled(g) >= 1
                    /\ grouped[k].next = generators[g][Pulled(g)]
                    /\ IF pc \in {"yielded", "closed"} /\ k = NextGroup(grouped)
                       THEN OutOf(g) = pulled
                       ELSE OutOf(g) \o <<grouped[k].next>> = pulled
              /\ groups = {} => OutOf(g) = pulled
    /\ Len(grouped) <= Len(generators)
    /\ SumPulled(Len(generators)) <= Len(out) + Len(generators)

\* The limit has been reached with every input still holding a buffered
\* head: as many items pulled as yielded, plus one for each input.
C10_Witness ==
    /\ pc = "done" /\ ~IsNone(limit) /\ count = limit.v /\ Len(out) > 0
    /\ Len(generators) >= 2
    /\ SumPulled(Len(generators)) = Len(out) + Len(generators)

---------------------------------------------------------------------------
(* The querysets.  The occurrence table is the sequence `table` of rule    *)
(* records, pk being the row's place in it and event the owning event; the *)
(* event table holds the events of EventIds, an event owning the rows that *)
(* name it (possibly none).  A queryset is a sequence of objects, an       *)
(* object [kind |-> "occurrence" or "event", pk |-> its key].              *)

EventIds == {1, 2}

Obj(kind, pk) == [kind |-> kind, pk |-> pk]

\* Model.objects.all() of either model.
AllObjects(kind) ==
    IF kind = "occurrence" THEN [k \in 1..Len(table) |-> Obj(kind, k)]
    ELSE [k \in 1..Cardinality(EventIds) |-> Obj(kind, k)]

\* The stored rows a lookup on obj ranges over: the row itself, or for an
\* event the rows of its occurrence relation (occurrence__...).
RowsOf(obj) ==
    IF obj.kind = "occurrence" THEN {obj.pk}
    ELSE { k \in 1..Len(table) : table[k].event = obj.pk }

\* Q(start__lte=to_date) on one row (lines 153, 211).
StartLte(row, to_date) == row.start.v <= to_date.v

\* The from_date lookup on one row (lines 160-163, 218-221).  A DateField
\* is compared with the date of the datetime it is given.
FromLookup(row, from_date) ==
    \/ row.end.v >= from_date.v
    \/ /\ ~IsNone(row.repeat)
       /\ \/ (~IsNone(row.repeat_until)
              /\ row.repeat_until.v >= DateOf(from_date.v))
          \/ IsNone(row.repeat_until)

\* The approximate phase of for_period (lines 147-163, 206-221): each
\* filter() keeps the objects with some row satisfying its lookup.
approx_for_period(qs, from_date0, to_date0) ==
    LET to_date == IF Truthy(to_date0)
                   THEN as_datetime(to_date0, TRUE) ELSE to_date0
        qs1 == IF Truthy(to_date0)
               THEN SelectSeq(qs, LAMBDA o :
                        \E k \in RowsOf(o) : StartLte(table[k], to_date))
               ELSE qs
        from_date == IF Truthy(from_date0)
                     THEN as_datetime(from_date0, FALSE) ELSE from_date0
    IN  IF Truthy(from_date0)
        THEN SelectSeq(qs1, LAMBDA o :
                 \E k \in RowsOf(o) : FromLookup(table[k], from_date))
        ELSE qs1

\* Lines 42-48 at once: the groups of the generators that had a first item.
HeadGroups(gens) ==
    SelectSeq([g \in 1..Len(gens) |->
                   [generator |-> g,
                    next |-> IF Len(gens[g]) > 0 THEN gens[g][1] ELSE NoItem]],
              LAMBDA grp : grp.next # NoItem)

\* first_item(combine_occurrences(gens, lim)): the first item the merge
\* yields, or None.
combine_first(gens, lim) ==
    LET grp == HeadGroups(gens)
    IN  IF WithinLimit(lim, 0) /\ Len(grp) # 0
        THEN grp[NextGroup(grp)].next
        ELSE NoItem

\* BaseQuerySet.all_occurrences, as far as its first item: the event's
\* rows are winnowed with the approximate filter, expanded, and merged.
queryset_first_occurrence(qs, from_date, to_date, lim) ==
    LET kept == approx_for_period(qs, from_date, to_date)
    IN  combine_first([k \in 1..Len(kept) |->
                          all_occurrences(table[kept[k].pk], from_date, to_date)],
                      lim)

\* BaseModel.next_occurrence of an occurrence or an event.
next_occurrence(obj, from_date, to_date, t) ==
    LET from_date1 == IF ~Truthy(from_date) THEN DateTime(t) ELSE from_date
    IN  IF obj.kind = "occurrence"
        THEN first_item(all_occurrences(table[obj.pk], from_date1, to_date))
        ELSE queryset_first_occurrence(
                 SelectSeq(AllObjects("occurrence"),
                           LAMBDA o : table[o.pk].event = obj.pk),
                 from_date1, to_date, None)

\* filter_invalid: the objects without a next occurrence are excluded.
filter_invalid(approx_qs, from_date, to_date) ==
    LET exclude_pks == { approx_qs[k].pk : k \in
                            { j \in DOMAIN approx_qs :
                                next_occurrence(approx_qs[j], from_date, to_date, 0)
                                    = NoItem } }
    IN  SelectSeq(approx_qs, LAMBDA o : o.pk \notin exclude_pks)

\* for_period of either queryset (lines 138-169, 197-227): the exact phase
\* stands inside the `if from_date:` branch.
for_period(qs, from_date, to_date, exact) ==
    LET filtered_qs == approx_for_period(qs, from_date, to_date)
    IN  IF Truthy(from_date) /\ exact
        THEN filter_invalid(filtered_qs,
                            as_datetime(from_date, FALSE),
                            IF Truthy(to_date) THEN as_datetime(to_date, TRUE)
                            ELSE to_date)
        ELSE filtered_qs

\* sorted(list, key=...) of a list of [key, obj] records: the stable
\* ascending sort, the record at place k taking the place that the records
\* with a smaller key, or an equal key and an earlier place, leave it.
Rank(list, k) ==
    1 + Cardinality({ j \in DOMAIN list :
                        \/ list[j].key < list[k].key
                        \/ list[j].key = list[k].key /\ j < k })

Sorted(list) ==
    [r \in 1..Len(list) |->
        list[CHOOSE k \in DOMAIN list : Rank(list, k) = r]]

\* The objects of line 103 with their sort key: `has` tells whether the
\* object has a next occurrence, `key` is that occurrence's start.
KeyedList(qs, from_date, t) ==
    [k \in DOMAIN qs |->
        [key |-> LET o == next_occurrence(qs[k], from_date, None, t)
                 IN  IF o # NoItem THEN o[1] ELSE 0 - 1,
         has |-> next_occurrence(qs[k], from_date, None, t) # NoItem,
         obj |-> qs[k]]]

\* BaseQuerySet.sort_by_next; t is the clock's reading during the call.
\* Mutant: the list is filtered but not sorted.
sort_by_next_Unsorted(qs, from_date, t) ==
    SelectSeq(qs, LAMBDA e : next_occurrence(e, from_date, None, t) # NoItem)

sort_by_next(qs, from_date, t) ==
    CHOOSE sorted \in
        { [r \in DOMAIN Sorted(list) |-> Sorted(list)[r].obj] :
            list \in { SelectSeq(KeyedList(qs, from_date, t),
                                 LAMBDA x : x.has) } } : TRUE

---------------------------------------------------------------------------
(* SpecPeriod: a stored table of valid rules, a window, and the queryset   *)
(* operations on it.                                                       *)

\* The rules the rows are drawn from, in the order of Meta.ordering
\* ('start', 'end'): one that does not repeat; a weekly one without end; a
\* daily one that runs over midnight, until 2021-01-05; a monthly one on
\* the 31st, until 2021-03-31.
Catalogue ==
    << [start |-> DateTime(At(2021, 1, 1, 9)), end |-> DateTime(At(2021, 1, 1, 10)),
        repeat |-> None, repeat_until |-> None],
       [start |-> DateTime(At(2021, 1, 1, 9)), end |-> DateTime(At(2021, 1, 1, 10)),
        repeat |-> PyInt(WEEKLY), repeat_until |-> None],
       [start |-> DateTime(At(2021, 1, 1, TicksPerDay - 1)),
        end |-> DateTime(At(2021, 1, 1, TicksPerDay - 1) + 2),
        repeat |-> PyInt(DAILY), repeat_until |-> Date(Ordinal(2021, 1, 5))],
       [start |-> DateTime(At(2021, 1, 31, 9)), end |-> DateTime(At(2021, 1, 31, 11)),
        repeat |-> PyInt(MONTHLY), repeat_until |-> Date(Ordinal(2021, 3, 31))] >>

\* The row at place k of a table whose rows are <<rule, event>> pairs.
Row(k, pair) ==
    [pk |-> k, event |-> pair[2],
     start |-> Catalogue[pair[1]].start, end |-> Catalogue[pair[1]].end,
     repeat |-> Catalogue[pair[1]].repeat,
     repeat_until |-> Catalogue[pair[1]].repeat_until,
     occurrence_data |-> k]

\* The tables of at most MaxRows rows, in queryset order.
Tables ==
    UNION { { [k \in 1..n |-> Row(k, q[k])] :
                q \in { r \in [1..n -> (DOMAIN Catalogue) \X EventIds] :
                          \A k \in 1..(n - 1) :
                              \/ r[k][1] < r[k + 1][1]
                              \/ r[k][1] = r[k + 1][1] /\ r[k][2] <= r[k + 1][2] } } :
            n \in 0..MaxRows }

PeriodFroms ==
    { None, Date(Ordinal(2021, 1, 6)), DateTime(At(2021, 1, 1, 10)),
      Date(Ordinal(2021, 2, 1)), Date(Ordinal(2025, 1, 1)) }

PeriodTos ==
    { None, Date(Jan1), Date(Ordinal(2021, 3, 30)), DateTime(At(2021, 1, 1, 8)) }

InitPeriod ==
    /\ table \in Tables
    /\ from_arg \in PeriodFroms
    /\ to_arg \in PeriodTos
    /\ occ = None
    /\ op = "none"
    /\ result = <<>>
    /\ clock = 0
    /\ MergeIdle

\* A caller evaluates Model.objects.for_period(from_date, to_date, exact).
ForPeriod ==
    /\ op = "none"
    /\ \E kind \in {"occurrence", "event"}, exact \in BOOLEAN :
          result' = [kind |-> kind, exact |-> exact,
                     qs |-> for_period(AllObjects(kind), from_arg, to_arg, exact)]
    /\ op' = "for_period"
    /\ UNCHANGED <<occ, from_arg, to_arg, table, clock>>
    /\ MergeUnchanged

\* A caller evaluates Model.objects.sort_by_next(from_date); the clock is
\* read when from_date is not given.
SortByNext ==
    /\ op = "none"
    /\ \E kind \in {"occurrence", "event"}, t \in Nows :
          /\ clock' = IF ~Truthy(from_arg) THEN t ELSE clock
          /\ result' = [kind |-> kind, exact |-> FALSE,
                        qs |-> sort_by_next(AllObjects(kind), from_arg, clock')]
    /\ op' = "sort_by_next"
    /\ UNCHANGED <<occ, from_arg, to_arg, table>>
    /\ MergeUnchanged

NextPeriod == ForPeriod \/ SortByNext

SpecPeriod == InitPeriod /\ [][NextPeriod]_vars

---------------------------------------------------------------------------
(* What the claims about the querysets say.                                *)

\* The object has a real occurrence in the window: one of its rules, being
\* valid, expands to at least one instance for the same bounds.
HasOccurrence(o) ==
    \E k \in RowsOf(o) :
        /\ ValidRule(table[k])
        /\ all_occurrences(table[k], from_arg, to_arg) # <<>>

\* C1: the approximate filter retains every rule whose own expansion for
\* the window yields an instance, and every event owning such a rule.
C1_NeverUnderIncludes ==
    (op = "for_period" /\ ~result.exact) =>
        \A o \in Range(AllObjects(result.kind)) :
            HasOccurrence(o) => o \in Range(result.qs)

\* C3: the exact filter's result is contained in the approximate filter's,
\* and is exactly the set of objects with a real occurrence in the window.
C3_ExactFilter ==
    (op = "for_period" /\ result.exact) =>
        /\ Range(result.qs) \subseteq
              Range(for_period(AllObjects(result.kind), from_arg, to_arg, FALSE))
        /\ Range(result.qs) =
              { o \in Range(AllObjects(result.kind)) : HasOccurrence(o) }

\* C7: sort_by_next returns exactly the objects whose next occurrence is
\* not none, each once, ascending by the start of that occurrence.
C7_SortByNext ==
    op = "sort_by_next" =>
        LET nxt(o) == next_occurrence(o, from_arg, None, clock)
        IN  /\ Range(result.qs) =
                  { o \in Range(AllObjects(result.kind)) : nxt(o) # NoItem }
            /\ Cardinality(Range(result.qs)) = Len(result.qs)
            /\ \A k \in 1..(Len(result.qs) - 1) :
                  nxt(result.qs[k])[1] <= nxt(result.qs[k + 1])[1]

\* sort_by_next dropped an object and returned two others in another
\* order than the queryset's.
C7_Witness ==
    /\ op = "sort_by_next"
    /\ Len(result.qs) >= 2
    /\ Len(result.qs) < Len(AllObjects(result.kind))
    /\ \E k \in 1..(Len(result.qs) - 1) :
          /\ result.qs[k].pk > result.qs[k + 1].pk
          /\ next_occurrence(result.qs[k], from_arg, None, clock)[1]
                < next_occurrence(result.qs[k + 1], from_arg, None, clock)[1]

====
